---- MODULE Spec2Model ----
(***************************************************************************)
(* Offline-tolerant data access of the Sandwich POS: DatabaseManager       *)
(* (src/js/database.js) with its in-memory offline queue and the           *)
(* reconciliation pass processOfflineQueue.                                *)
(*                                                                         *)
(* JavaScript is single threaded: a handler runs until it awaits a network *)
(* call.  The continuation of an await on an already settled promise is a  *)
(* microtask and runs before any further event (UI call, online/offline    *)
(* event, network response) is delivered; that is the MicrotaskPending     *)
(* guard of the event actions.                                             *)
(***************************************************************************)
EXTENDS Integers, Sequences, FiniteSets, Bags, TLC

\* ---------------------------------------------------------------- bounds
MaxEnq      == 2    \* pushes by UI calls and catch blocks over a run
MaxPending  == 2    \* UI calls awaiting the backend and passes alive at once
MaxRekeys   == 1    \* pushes by replays taken while unreachable over a run
MaxClock    == 2    \* values of Date.now() seen in a run

Kinds     == {"create", "update", "delete"}
Tables    == {"sales"}
TargetIds == {1}            \* ids the UI passes to update / delete
NoId      == 0              \* create payload without an id field
ServerIds == {-1}           \* ids gen_random_uuid() assigns (UUID text, never digits only)
Outcomes  == {"ok", "reject", "throw"}   \* remote answer: rows, {error}, rejected promise
NoError   == {"ok", "empty"}             \* answers without error: rows, or no row at all

VARIABLES
    supabase,          \* this.supabase is a client (TRUE) or null (FALSE)
    navigatorOnLine,   \* navigator.onLine
    isOnline,          \* this.isOnline
    offlineQueue,      \* the array this.offlineQueue refers to
    now,               \* the value Date.now() returned last
    inflight,          \* bag of UI calls awaiting their remote answer
    pass,              \* bag of processOfflineQueue activations
    result,            \* how the facade call that completed in the last step ended
    ended,             \* the pass that ended in the last step, as it was then
    reloaded,          \* the last step loaded the page again
    accepted,          \* tags of the queued operations the backend has accepted
    nEnq,              \* pushes so far (next entry serial)
    nRekey             \* pushes made by replays taken while unreachable

vars == <<supabase, navigatorOnLine, isOnline, offlineQueue, now, inflight,
          pass, result, ended, reloaded, accepted, nEnq, nRekey>>

\* Reads and the domain helpers that write.
VARIABLES
    reads,             \* bag of read calls awaiting their remote answer
    helpers,           \* bag of addSale / addExpense / ... calls awaiting theirs
    localStore,        \* localStorage item `offline_<table>`, parsed
    remoteRows,        \* the rows the backend holds for the table
    lastRead,          \* whether the backend answered a read, and its rows the last time
    readResult         \* what the read that completed in the last step returned

apiVars == <<reads, helpers, localStore, remoteRows, lastRead, readResult>>

\* The ingredient row the sale trigger writes.
VARIABLES
    quantity,          \* ingredients.quantity of the ingredient
    recipeQuantity,    \* recipes.quantity of its recipe link, in thousandths
    saleItems,         \* bag of sale_items inserts whose transaction is open
    stocked,           \* the quantity the last upsert of the ingredient set
    deducted,          \* the trigger runs since then: sold quantity, recipe quantity
    peak               \* most inserts open at once since then

sqlVars == <<quantity, recipeQuantity, saleItems, stocked, deducted, peak>>

\* Backup and restore of the local data.
VARIABLES
    localData,         \* per known table, the set of records held locally
    document,          \* the document exportData produced last
    snapshot,          \* the local data as they were when it was produced
    portResult         \* what the export or import of the last step found

portVars == <<localData, document, snapshot, portResult>>

\* The service worker and the cache stores.
VARIABLES
    worker,            \* lifecycle state of this version's service worker
    skipWaitingFlag,   \* self.skipWaiting() has been called
    previous,          \* a worker of the previous version controls the open pages
    claimed,           \* self.clients.claim() has resolved
    stores,            \* CacheStorage: per cache name, whether it exists and its entries
    cacheNames,        \* the names caches.keys() gave the activate handler
    deletedNames,           \* the names the activate handler has deletedNames
    fetching,          \* bag of fetch handlers that have not answered yet
    putting,           \* bag of cache.put calls that have not settled
    lastOk,            \* per request key, the last ok response the network gave
    nResponse,         \* network responses so far (serial of the next one)
    today,             \* the day Date.now() falls on
    answer             \* what the worker answered in the last step

swVars == <<worker, skipWaitingFlag, previous, claimed, stores, cacheNames,
            deletedNames, fetching, putting, lastOk, nResponse, today, answer>>

allVars == <<vars, apiVars, sqlVars, portVars, swVars>>

\* -------------------------------------------------------------- helpers
\* pc, live/arr (the array iterated), i (iterator index) and failed
\* (failedOperations) are the activation's state; log (the entries replayed so
\* far and whether each reached the backend), acc (tags the backend accepted)
\* and nFail (error answers) record what the activation did.
NewPass == [pc |-> "loop", live |-> TRUE, arr |-> <<>>, i |-> 0,
            failed |-> <<>>, log |-> <<>>, acc |-> {}, nFail |-> 0]

NoPass == [NewPass EXCEPT !.pc = "none", !.live = FALSE]

NoResult == [how |-> "none", madeOnline |-> FALSE, remote |-> "none",
             tag |-> 0, byPass |-> FALSE]

\* `this.isOnline && this.supabase`
Reachable == isOnline /\ supabase

\* The entry pushed for a call: { operation, table, data | id, updates }.
\* n names the pushed object, tag the UI call the payload comes from (the n
\* of the first entry pushed for it; 0 in args that were never queued).
QueueEntry(args, id, n) ==
    [operation |-> args.operation, table |-> args.table, id |-> id,
     tag |-> IF args.tag = 0 THEN n ELSE args.tag, n |-> n]

\* The values Date.now() can return: the same millisecond as the last
\* reading or a later one.
ClockReadings == {t \in {now, now + 1} : t <= MaxClock}

\* else-branch of create / update / delete: create keys the record with
\* t = Date.now(), update and delete keep the id they were given.
OfflineEntry(args, t, n) ==
    QueueEntry(args, IF args.operation = "create" THEN t ELSE args.id, n)

\* catch-branch of create / update / delete: the arguments as given.
CatchEntry(args, n) == QueueEntry(args, args.id, n)

\* As QueueAfterOffline, with the push missing from delete's else-branch.
QueueAfterOffline_DeleteNotQueued(q, args, t, n) ==
    IF args.operation = "delete" THEN q ELSE Append(q, OfflineEntry(args, t, n))

\* this.offlineQueue after the else-branch of a call.
QueueAfterOffline(q, args, t, n) == Append(q, OfflineEntry(args, t, n))

\* As QueueAfterCatch, with the queue replaced by the entry.
QueueAfterCatch_Alone(q, args, n) == <<CatchEntry(args, n)>>

\* As QueueAfterCatch, with unshift in place of push.
QueueAfterCatch_Unshift(q, args, n) == <<CatchEntry(args, n)>> \o q

\* this.offlineQueue after the catch-branch of a call.
QueueAfterCatch(q, args, n) == Append(q, CatchEntry(args, n))

\* The arguments of a UI call.
UserArgs(kind, table, id) ==
    [operation |-> kind, table |-> table, id |-> id, tag |-> 0]

\* The arguments a replay passes on: operation.table, operation.data / id.
ReplayArgs(e) ==
    [operation |-> e.operation, table |-> e.table, id |-> e.id, tag |-> e.tag]

\* The array object activation r iterates: the live queue or a detached one.
Arr(r) == IF r.live THEN offlineQueue ELSE r.arr

\* The entry activation r is replaying.
Cur(r) == Arr(r)[r.i]

\* The activations alive.
Passes == BagToSet(pass)

\* The bag b with one copy of x replaced by y.
Swap(b, x, y) == (b (-) SetToBag({x})) (+) SetToBag({y})

\* A continuation is ready to run: no event is delivered before it ran.
MicrotaskPending == \E r \in Passes : r.pc = "loop"

\* What a completed call hands to its caller.
Returned(how, online, remote, tag, byPass) ==
    [how |-> how, madeOnline |-> online, remote |-> remote, tag |-> tag,
     byPass |-> byPass]

Tags(q) == {q[k].tag : k \in 1..Len(q)}

\* The operations the page holds: in the queue, or in an array or the
\* failedOperations of an activation.
HeldTags ==
    Tags(offlineQueue) \cup UNION {Tags(r.arr) \cup Tags(r.failed) : r \in Passes}

\* The backend's acceptances that concern an operation the page holds
\* before or after the step.
Remember(acc) == {t \in acc : t \in HeldTags \/ t \in HeldTags'}

\* ----------------------------------------------------------------- Init
Init ==
    /\ supabase \in BOOLEAN
    /\ navigatorOnLine \in BOOLEAN
    /\ isOnline = (navigatorOnLine /\ supabase)
    /\ offlineQueue = <<>>
    /\ now = 1
    /\ inflight = EmptyBag
    /\ pass = EmptyBag
    /\ result = NoResult
    /\ ended = NoPass
    /\ reloaded = FALSE
    /\ accepted = {}
    /\ nEnq = 0
    /\ nRekey = 0

\* What a step that completes no call, ends no pass and loads no page
\* leaves in result, ended and reloaded.
Quiet ==
    /\ result' = NoResult
    /\ ended' = NoPass
    /\ reloaded' = FALSE

\* ---------------------------------------------------------------- facade
\* create / update / delete called by the UI while reachable: the remote
\* call is issued and awaited.
UserCallOnline(kind, table, id) ==
    /\ ~MicrotaskPending
    /\ Reachable
    /\ BagCardinality(inflight) + BagCardinality(pass) < MaxPending
    /\ inflight' = inflight (+) SetToBag({UserArgs(kind, table, id)})
    /\ Quiet
    /\ UNCHANGED <<supabase, navigatorOnLine, isOnline, offlineQueue, now,
                   pass, nEnq>>
    /\ UNCHANGED nRekey
    /\ accepted' = Remember(accepted)

\* create / update / delete called by the UI while unreachable.
UserCallOffline(kind, table, id) ==
    /\ ~MicrotaskPending
    /\ nEnq - nRekey < MaxEnq
    /\ ~Reachable
    /\ \E t \in ClockReadings :
          /\ t = now \/ kind = "create"
          /\ now' = t
          /\ offlineQueue' =
                QueueAfterOffline(offlineQueue, UserArgs(kind, table, id),
                                  t, nEnq + 1)
    /\ result' = Returned("offline", FALSE, "none", nEnq + 1, FALSE)
    /\ nEnq' = nEnq + 1
    /\ ended' = NoPass
    /\ reloaded' = FALSE
    /\ UNCHANGED <<supabase, navigatorOnLine, isOnline, inflight, pass>>
    /\ UNCHANGED nRekey
    /\ accepted' = Remember(accepted)

\* The remote answer to a UI call: rows (`data[0]` is a record), no row
\* (`data[0]` is undefined), or an error that the catch block queues and
\* rethrows.
UserResponse(c, outcome) ==
    /\ ~MicrotaskPending
    /\ BagIn(c, inflight)
    /\ inflight' = inflight (-) SetToBag({c})
    /\ IF outcome \in NoError
       THEN /\ result' = Returned(IF outcome = "ok" THEN "server" ELSE "undefined",
                                  TRUE, outcome, 0, FALSE)
            /\ UNCHANGED <<offlineQueue, nEnq>>
       ELSE /\ nEnq - nRekey < MaxEnq
            /\ offlineQueue' = QueueAfterCatch(offlineQueue, c, nEnq + 1)
            /\ nEnq' = nEnq + 1
            /\ result' = Returned("raised", TRUE, outcome, nEnq + 1, FALSE)
    /\ ended' = NoPass
    /\ reloaded' = FALSE
    /\ UNCHANGED <<supabase, navigatorOnLine, isOnline, now, pass>>
    /\ UNCHANGED nRekey
    /\ accepted' = Remember(accepted)

\* ------------------------------------------------------- connectivity
\* window 'online' handler: isOnline = true, then processOfflineQueue(),
\* which returns at once without a client or with an empty queue and
\* otherwise enters its for-of loop over this.offlineQueue.
GoOnline ==
    /\ ~MicrotaskPending
    /\ ~navigatorOnLine
    /\ navigatorOnLine' = TRUE
    /\ isOnline' = TRUE
    /\ IF ~supabase \/ Len(offlineQueue) = 0
       THEN UNCHANGED pass
       ELSE /\ BagCardinality(inflight) + BagCardinality(pass) < MaxPending
            /\ pass' = pass (+) SetToBag({NewPass})
    /\ Quiet
    /\ UNCHANGED <<supabase, offlineQueue, now, inflight, nEnq>>
    /\ UNCHANGED nRekey
    /\ accepted' = Remember(accepted)

\* window 'offline' handler.
GoOffline ==
    /\ ~MicrotaskPending
    /\ navigatorOnLine
    /\ navigatorOnLine' = FALSE
    /\ isOnline' = FALSE
    /\ Quiet
    /\ UNCHANGED <<supabase, offlineQueue, now, inflight, pass, nEnq>>
    /\ UNCHANGED nRekey
    /\ accepted' = Remember(accepted)

\* The queue of a freshly constructed manager: `this.offlineQueue = []`.
ConstructedQueue(q) == <<>>

\* The page is loaded again: `const db = new DatabaseManager()`.  Calls and
\* passes of the old page are gone with it.
Reload ==
    /\ isOnline' = (navigatorOnLine /\ supabase)
    /\ offlineQueue' = ConstructedQueue(offlineQueue)
    /\ inflight' = EmptyBag
    /\ pass' = EmptyBag
    /\ result' = NoResult
    /\ ended' = NoPass
    /\ reloaded' = TRUE
    /\ UNCHANGED <<supabase, navigatorOnLine, now, nEnq>>
    /\ UNCHANGED nRekey
    /\ accepted' = Remember(accepted)

\* ------------------------------------------------- processOfflineQueue
\* Loop step, next entry, manager reachable: the replayed create / update /
\* delete issues its remote call and the pass awaits it.
PassSend(r) ==
    /\ r.pc = "loop"
    /\ r.i < Len(Arr(r))
    /\ Reachable
    /\ LET e == Arr(r)[r.i + 1]
       IN pass' = Swap(pass, r,
                       [r EXCEPT !.pc = "await", !.i = @ + 1,
                                 !.log = Append(@, [n |-> e.n, sent |-> TRUE])])
    /\ Quiet
    /\ UNCHANGED <<supabase, navigatorOnLine, isOnline, offlineQueue, now,
                   inflight, nEnq>>
    /\ UNCHANGED nRekey
    /\ accepted' = Remember(accepted)

\* Loop step, next entry, manager unreachable: the replayed call takes its
\* else-branch, pushes an entry and returns a record, so the pass counts the
\* replay as done and goes on.
PassReplayOffline(r) ==
    /\ r.pc = "loop"
    /\ r.i < Len(Arr(r))
    /\ ~Reachable
    /\ nRekey < MaxRekeys
    /\ LET e == Arr(r)[r.i + 1]
       IN /\ \E t \in ClockReadings :
                /\ t = now \/ e.operation = "create"
                /\ now' = t
                /\ offlineQueue' =
                      QueueAfterOffline(offlineQueue, ReplayArgs(e), t, nEnq + 1)
          /\ result' = Returned("offline", FALSE, "none", e.tag, TRUE)
          /\ pass' = Swap(pass, r,
                          [r EXCEPT !.i = @ + 1,
                                    !.log = Append(@, [n |-> e.n, sent |-> FALSE])])
    /\ nEnq' = nEnq + 1
    /\ nRekey' = nRekey + 1
    /\ ended' = NoPass
    /\ reloaded' = FALSE
    /\ UNCHANGED <<supabase, navigatorOnLine, isOnline, inflight>>
    /\ accepted' = Remember(accepted)

\* The remote answer to a replayed call.  An error is queued and rethrown by
\* the replayed call's catch block and then collected by the pass.
PassResponse(r, outcome) ==
    /\ ~MicrotaskPending
    /\ r.pc = "await"
    /\ IF outcome \in NoError
       THEN /\ pass' = Swap(pass, r,
                            [r EXCEPT !.pc = "loop",
                                      !.acc = IF outcome = "ok"
                                              THEN @ \cup {Cur(r).tag} ELSE @])
            /\ result' = Returned(IF outcome = "ok" THEN "server" ELSE "undefined",
                                  TRUE, outcome, Cur(r).tag, TRUE)
            /\ UNCHANGED <<offlineQueue, nEnq>>
       ELSE /\ nEnq - nRekey < MaxEnq
            /\ offlineQueue' =
                  QueueAfterCatch(offlineQueue, ReplayArgs(Cur(r)), nEnq + 1)
            /\ nEnq' = nEnq + 1
            /\ pass' = Swap(pass, r, [r EXCEPT !.pc = "loop",
                                               !.failed = Append(@, Cur(r)),
                                               !.nFail = @ + 1])
            /\ result' = Returned("raised", TRUE, outcome, Cur(r).tag, TRUE)
    /\ ended' = NoPass
    /\ reloaded' = FALSE
    /\ UNCHANGED <<supabase, navigatorOnLine, isOnline, now, inflight>>
    /\ UNCHANGED nRekey
    /\ accepted' = Remember(IF outcome = "ok" THEN accepted \cup {Cur(r).tag}
                            ELSE accepted)

\* As KeptQueue, with the failed operations added to the old queue.
KeptQueue_Concat(q, failed) == q \o failed

\* Variant: the loop's result is never assigned.
KeptQueue_Unchanged(q, failed) == q

\* The queue after the loop: `this.offlineQueue = failedOperations`.
KeptQueue(q, failed) == failed

\* Activation r once this.offlineQueue refers to another array: r keeps the
\* array object it iterates, with the entries it has now.
Detached(r) == IF r.live THEN [r EXCEPT !.live = FALSE, !.arr = offlineQueue]
               ELSE r

\* Loop exit: the iterator is past the end of its array.  The assignment
\* makes this.offlineQueue refer to a new array; a pass still iterating the
\* old array object keeps it as it is now.
PassFinish(r) ==
    /\ r.pc = "loop"
    /\ r.i >= Len(Arr(r))
    /\ offlineQueue' = KeptQueue(offlineQueue, r.failed)
    /\ pass' = BagOfAll(Detached, pass (-) SetToBag({r}))
    /\ ended' = [Detached(r) EXCEPT !.pc = "ended"]
    /\ result' = NoResult
    /\ reloaded' = FALSE
    /\ UNCHANGED <<supabase, navigatorOnLine, isOnline, now, inflight,
                   nEnq>>
    /\ UNCHANGED nRekey
    /\ accepted' = Remember(accepted)

\* ------------------------------------------------------------------ read
\* A stored row; deleted is its `_deleted` flag.
Row(id, deleted) == [id |-> id, deleted |-> deleted]

\* The contents the table can have.
RowLists == {<<>>, <<Row(-1, FALSE)>>, <<Row(-1, FALSE), Row(1, TRUE)>>}

Limits == {0, 1}            \* filters.limit: absent (0) or 1

NoRead == [how |-> "none", rows |-> <<>>]

\* `array.slice(0, limit)` when filters.limit is truthy.
Slice(rows, limit) ==
    IF limit = 0 \/ limit >= Len(rows) THEN rows ELSE SubSeq(rows, 1, limit)

\* As GetOfflineData, with the rows flagged _deleted kept.
GetOfflineData_All(store, limit) == Slice(store, limit)

\* getOfflineData: the parsed item without the rows flagged _deleted, cut to
\* filters.limit.
GetOfflineData(store, limit) ==
    Slice(SelectSeq(store, LAMBDA x : ~x.deleted), limit)

\* `select('*')` with `.limit(value)` applied: what the backend answers.
RemoteSelect(rows, limit) == Slice(rows, limit)

ApiInit ==
    /\ reads = EmptyBag
    /\ helpers = EmptyBag
    /\ localStore = <<>>
    /\ remoteRows = <<>>
    /\ lastRead = [known |-> FALSE, rows |-> <<>>]
    /\ readResult = NoRead

\* What a step of the queue model leaves in the variables of this section.
ApiQuiet ==
    /\ readResult' = NoRead
    /\ UNCHANGED <<reads, helpers, localStore, remoteRows, lastRead>>
    /\ UNCHANGED <<sqlVars, portVars, swVars>>

\* What a step of this section leaves in the variables of the queue model.
QueueQuiet ==
    /\ Quiet
    /\ UNCHANGED <<supabase, navigatorOnLine, isOnline, offlineQueue, now,
                   inflight, pass, nEnq, nRekey>>
    /\ accepted' = Remember(accepted)
    /\ UNCHANGED <<sqlVars, portVars, swVars>>

\* read(table, filters) called by the UI: the query is issued and awaited, or,
\* unreachable, the local copy is returned at once.
ReadCall(limit) ==
    /\ ~MicrotaskPending
    /\ IF Reachable
       THEN /\ BagCardinality(reads) < MaxPending
            /\ reads' = reads (+) SetToBag({[limit |-> limit]})
            /\ readResult' = NoRead
       ELSE /\ readResult' = [how |-> "local",
                              rows |-> GetOfflineData(localStore, limit)]
            /\ UNCHANGED reads
    /\ UNCHANGED <<helpers, localStore, remoteRows, lastRead>>
    /\ QueueQuiet

\* The remote answer to a read: `data || []`, or on an error the local copy.
\* Nothing is written to localStorage: saveOfflineData has no caller.
ReadResponse(c, outcome) ==
    /\ ~MicrotaskPending
    /\ BagIn(c, reads)
    /\ reads' = reads (-) SetToBag({c})
    /\ IF outcome = "ok"
       THEN LET data == RemoteSelect(remoteRows, c.limit)
            IN /\ readResult' = [how |-> "server", rows |-> data]
               /\ lastRead' = [known |-> TRUE, rows |-> data]
               /\ UNCHANGED localStore
       ELSE /\ readResult' = [how |-> "local",
                              rows |-> GetOfflineData(localStore, c.limit)]
            /\ UNCHANGED <<lastRead, localStore>>
    /\ UNCHANGED <<helpers, remoteRows>>
    /\ QueueQuiet

\* saveOfflineData(table, data): the item is replaced by the data given.
SaveOfflineData(rows) ==
    /\ ~MicrotaskPending
    /\ rows # localStore
    /\ localStore' = rows
    /\ readResult' = NoRead
    /\ UNCHANGED <<reads, helpers, remoteRows, lastRead>>
    /\ QueueQuiet

\* Another client changes the table.
RemoteChange(rows) ==
    /\ ~MicrotaskPending
    /\ rows # remoteRows
    /\ remoteRows' = rows
    /\ readResult' = NoRead
    /\ UNCHANGED <<reads, helpers, localStore, lastRead>>
    /\ QueueQuiet

\* --------------------------------------------------------------- helpers
\* addSale, addExpense, updateInventory, addDailyOperation and their tables.
Helpers == {"addSale", "addExpense", "updateInventory", "addDailyOperation"}

\* A helper called by the UI: `await this.supabase.from(...)` inside try,
\* whatever isOnline says.  Without a client the property access throws, the
\* catch block logs and rethrows.
HelperCall(h) ==
    /\ ~MicrotaskPending
    /\ IF supabase
       THEN /\ BagCardinality(helpers) < MaxPending
            /\ helpers' = helpers (+) SetToBag({[name |-> h, reachable |-> Reachable]})
            /\ result' = NoResult
       ELSE /\ result' = Returned("raised", FALSE, "throw", 0, FALSE)
            /\ UNCHANGED helpers
    /\ ended' = NoPass
    /\ reloaded' = FALSE
    /\ readResult' = NoRead
    /\ UNCHANGED <<supabase, navigatorOnLine, isOnline, offlineQueue, now,
                   inflight, pass, nEnq, nRekey>>
    /\ UNCHANGED <<reads, localStore, remoteRows, lastRead>>
    /\ accepted' = Remember(accepted)
    /\ UNCHANGED <<sqlVars, portVars, swVars>>

\* The remote answer to a helper: `data[0]` (data for updateInventory), or an
\* error that the catch block logs and rethrows.
HelperResponse(c, outcome) ==
    /\ ~MicrotaskPending
    /\ BagIn(c, helpers)
    /\ helpers' = helpers (-) SetToBag({c})
    /\ result' = Returned(IF outcome = "ok" THEN "server" ELSE "raised",
                          c.reachable, outcome, 0, FALSE)
    /\ ended' = NoPass
    /\ reloaded' = FALSE
    /\ readResult' = NoRead
    /\ UNCHANGED <<supabase, navigatorOnLine, isOnline, offlineQueue, now,
                   inflight, pass, nEnq, nRekey>>
    /\ UNCHANGED <<reads, localStore, remoteRows, lastRead>>
    /\ accepted' = Remember(accepted)
    /\ UNCHANGED <<sqlVars, portVars, swVars>>

\* The page is loaded again: reads and helpers of the old page are gone, the
\* localStorage item stays.
ReloadApi ==
    /\ Reload
    /\ reads' = EmptyBag
    /\ helpers' = EmptyBag
    /\ readResult' = NoRead
    /\ UNCHANGED <<localStore, remoteRows, lastRead>>
    /\ UNCHANGED <<sqlVars, portVars, swVars>>

\* ------------------------------------------------------ inventory trigger
MaxStock == 5    \* largest quantity an upsert of the ingredient sets
MaxSales == 3    \* sale_items rows inserted since the ingredient was stocked
MaxSold  == 2    \* largest sale_items.quantity

\* recipes.quantity DECIMAL(8,3), in thousandths: 0.5, 1 (the default), 2.
RecipeQuantities == {500, 1000, 2000}

\* A numeric value, in thousandths, assigned to an INTEGER column: rounded to
\* the nearest integer, ties away from zero.
ToInteger(m) ==
    IF m >= 0 THEN (m + 500) \div 1000 ELSE 0 - ((500 - m) \div 1000)

\* `SET quantity = quantity - (NEW.quantity * r.quantity)`.
NewQuantity(q, sold, rq) == ToInteger(q * 1000 - sold * rq)

SaleItem(sold, pc) == [quantity |-> sold, pc |-> pc]

\* A transaction has updated the ingredient row and not committed: the row
\* is locked, and another UPDATE of it waits.
RowLocked == \E x \in BagToSet(saleItems) : x.pc = "commit"

\* Inserts whose trigger has not run yet.
Waiting ==
    LET S == {x \in BagToSet(saleItems) : x.pc = "trigger"}
        Sum[T \in SUBSET S] ==
            IF T = {} THEN 0
            ELSE LET x == CHOOSE y \in T : TRUE
                 IN  CopiesIn(x, saleItems) + Sum[T \ {x}]
    IN  Sum[S]

SqlInit ==
    /\ quantity = 0
    /\ recipeQuantity = 1000
    /\ saleItems = EmptyBag
    /\ stocked = 0
    /\ deducted = <<>>
    /\ peak = 0

\* updateInventory: the upsert writes the quantity it is given.
UpsertIngredient(q) ==
    /\ ~RowLocked
    /\ quantity' = q
    /\ stocked' = q
    /\ deducted' = <<>>
    /\ peak' = BagCardinality(saleItems)
    /\ UNCHANGED <<recipeQuantity, saleItems>>

\* The recipe link of the menu item gets another quantity.
SetRecipe(rq) ==
    /\ rq # recipeQuantity
    /\ recipeQuantity' = rq
    /\ UNCHANGED <<quantity, saleItems, stocked, deducted, peak>>

\* A request inserts a sale_items row of the menu item.
InsertSaleItem(sold) ==
    /\ Len(deducted) + Waiting < MaxSales
    /\ saleItems' = saleItems (+) SetToBag({SaleItem(sold, "trigger")})
    /\ peak' = IF BagCardinality(saleItems') > peak
               THEN BagCardinality(saleItems') ELSE peak
    /\ UNCHANGED <<quantity, recipeQuantity, stocked, deducted>>

\* trigger_update_inventory_after_sale, for the inserted row: the UPDATE
\* takes the ingredient row as the last committed writer left it.
TriggerUpdate(x) ==
    /\ x.pc = "trigger"
    /\ ~RowLocked
    /\ quantity' = NewQuantity(quantity, x.quantity, recipeQuantity)
    /\ saleItems' = (saleItems (-) SetToBag({x}))
                        (+) SetToBag({SaleItem(x.quantity, "commit")})
    /\ deducted' = Append(deducted, [quantity |-> x.quantity,
                                     recipe |-> recipeQuantity])
    /\ UNCHANGED <<recipeQuantity, stocked, peak>>

\* The request's transaction commits.
Commit(x) ==
    /\ x.pc = "commit"
    /\ saleItems' = saleItems (-) SetToBag({x})
    /\ UNCHANGED <<quantity, recipeQuantity, stocked, deducted, peak>>

\* ------------------------------------------------------ export and import
MaxRecords == 2    \* ids of the records a table holds

PortTables    == {"sales", "expenses"}    \* the known tables
FormatVersion == "1.0"

Record(id) == [id |-> id]
Records    == {Record(id) : id \in 1..MaxRecords}

NoDocument   == [version |-> "none"]
NoPortResult == [op |-> "none", priorEmpty |-> FALSE, priorForeign |-> FALSE]

EmptyData == [t \in PortTables |-> {}]

\* The records of a table as the array of the document, in id order.
RECURSIVE ToArray(_)
ToArray(S) ==
    IF S = {} THEN <<>>
    ELSE LET x == CHOOSE y \in S : \A z \in S : y.id <= z.id
         IN  <<x>> \o ToArray(S \ {x})

\* The records an array inserts.
Inserted(arr) == {arr[k] : k \in 1..Len(arr)}

\* exportData: one array per table, the export timestamp, the format version.
Exported(data, stamp) ==
    [version |-> FormatVersion, exportedAt |-> stamp,
     tables |-> [t \in PortTables |-> ToArray(data[t])]]

\* Variant: the provided arrays are merged into what the tables hold.
Imported_Merged(data, doc) ==
    [t \in PortTables |-> data[t] \cup Inserted(doc.tables[t])]

\* importData: every known table is cleared, then the arrays are inserted.
Imported(data, doc) ==
    [t \in PortTables |-> Inserted(doc.tables[t])]

PortInit ==
    /\ localData = EmptyData
    /\ document = NoDocument
    /\ snapshot = EmptyData
    /\ portResult = NoPortResult

\* A record is created in, or deleted from, a local table.
LocalCreate(t, x) ==
    /\ x \notin localData[t]
    /\ localData' = [localData EXCEPT ![t] = @ \cup {x}]
    /\ portResult' = NoPortResult
    /\ UNCHANGED <<document, snapshot>>

LocalDelete(t, x) ==
    /\ x \in localData[t]
    /\ localData' = [localData EXCEPT ![t] = @ \ {x}]
    /\ portResult' = NoPortResult
    /\ UNCHANGED <<document, snapshot>>

ExportData ==
    /\ document' = Exported(localData, now)
    /\ snapshot' = localData
    /\ portResult' = [NoPortResult EXCEPT !.op = "export"]
    /\ UNCHANGED localData

ImportData ==
    /\ document # NoDocument
    /\ localData' = Imported(localData, document)
    /\ portResult' =
          [op |-> "import",
           priorEmpty |-> localData = EmptyData,
           priorForeign |-> \E t \in PortTables :
                               localData[t] \ Inserted(document.tables[t]) # {}]
    /\ UNCHANGED <<document, snapshot>>

\* -------------------------------------------------------- service worker
MaxFetching  == 1    \* fetch handlers that have not answered, at once
MaxResponses == 1    \* responses the network gives in a run

CACHE_NAME    == "sandwich-pos-v2.0.0"
STATIC_CACHE  == "static-v2.0.0"
DYNAMIC_CACHE == "dynamic-v2.0.0"
OLD_CACHE     == "static-v1.0.0"    \* a name that is neither of the two
CacheNames    == {OLD_CACHE, STATIC_CACHE, DYNAMIC_CACHE}

\* The order in which the stores were created, which is the order in which
\* caches.match searches them.
MatchOrder == <<OLD_CACHE, STATIC_CACHE, DYNAMIC_CACHE>>

\* A URL: its origin as the labels of the host name, its pathname as the
\* segments between the slashes. An entry of the manifest that is a path
\* has no origin.
Url(origin, pathname) == [origin |-> origin, pathname |-> pathname]
NoUrl == Url(<<>>, <<>>)

App     == <<"app">>                              \* where the pages are served
Backend == <<"xyz", "supabase", "co">>
Cdn     == <<"cdn", "jsdelivr", "net">>
Origins == {App, Backend, Cdn, <<"supabase", "co", "example", "com">>}

\* Three of the files of the manifest: two paths and a full URL.
STATIC_FILES ==
    { Url(<<>>, <<"index.html">>), Url(<<>>, <<"js", "pos.js">>),
      Url(Cdn, <<"npm", "chart.js">>) }

\* `origin.includes(...)`: the labels are found in a row in the origin.
Includes(origin, labels) ==
    \E i \in 0..(Len(origin) - Len(labels)) :
        SubSeq(origin, i + 1, i + Len(labels)) = labels

\* `pathname.startsWith('/api/')`.
StartsWithApi(pathname) == Len(pathname) > 1 /\ pathname[1] = "api"

Request(method, url, destination) ==
    [method |-> method, url |-> url, destination |-> destination]

\* The requests the pages make.
Requests ==
    { Request("GET", Url(App, <<"index.html">>), "document"),
      Request("GET", Url(App, <<"js", "pos.js">>), "script"),
      Request("GET", Url(App, <<"menu">>), "document"),
      Request("GET", Url(App, <<"api", "sales">>), ""),
      Request("POST", Url(App, <<"api", "sales">>), "") }

\* The requests the router is given.
RouterRequests ==
    { Request(method, Url(origin, pathname), destination) :
        method \in {"GET", "POST"}, origin \in Origins,
        pathname \in {<<"index.html">>, <<"js", "pos.js">>, <<"menu">>,
                      <<"api", "sales">>, <<"api">>, <<"npm", "chart.js">>},
        destination \in {"document", ""} }

ManifestKeys ==
    {IF f.origin = <<>> THEN Url(App, f.pathname) ELSE f : f \in STATIC_FILES}
Keys         == ManifestKeys \cup {r.url : r \in Requests}
IndexKey     == Url(App, <<"index.html">>)

\* `7 * 24 * 60 * 60 * 1000` milliseconds, in days.
RetentionDays == 7
MaxDay        == 8    \* the days the clock runs
NoDate        == -1   \* response.headers.get('date') is null

\* A response: n tells the responses of the network apart (0: fetched by
\* install, -1: left by the previous version); date is the day of its Date
\* header.
Response(n, status) == [n |-> n, status |-> status, date |-> NoDate]
Dated(r, date)      == [r EXCEPT !.date = date]
NoResponse == Response(0, 0)

\* The days that pass at once: a day short of the retention, the retention,
\* a day more.
DayJumps == {RetentionDays - 1, RetentionDays, RetentionDays + 1}

\* `if (dateHeader)` and `cacheDate < oneWeekAgo`.
Expired_AtSeven(r) == r.date # NoDate /\ r.date <= today - RetentionDays

Expired(r) == r.date # NoDate /\ r.date < today - RetentionDays
Statuses   == {200, 206, 500}
Ok(r)      == r.status \in 200..299          \* response.ok

NoEntries  == [k \in Keys |-> NoResponse]
NoStore    == [exists |-> FALSE, entries |-> NoEntries]
EmptyStore == [exists |-> TRUE, entries |-> NoEntries]
OldStore   ==
    [exists |-> TRUE,
     entries |-> [k \in Keys |-> IF k \in ManifestKeys THEN Response(-1, 200)
                                 ELSE NoResponse]]
OldRuntime ==
    [exists |-> TRUE,
     entries |-> [k \in Keys |-> IF k \in ManifestKeys THEN NoResponse
                                 ELSE Response(-1, 200)]]
FullStatic ==
    [exists |-> TRUE,
     entries |-> [k \in Keys |-> IF k \in ManifestKeys THEN Response(0, 200)
                                 ELSE NoResponse]]

NoAnswer == [how |-> "none", url |-> NoUrl, resp |-> NoResponse]
Answer(how, url, resp) == [how |-> how, url |-> url, resp |-> resp]

\* caches.open(name): the store, created when it does not exist.
Opened(st, name) ==
    IF st[name].exists THEN st ELSE [st EXCEPT ![name] = EmptyStore]

\* caches.match(request): the entry of the first store that has one.
Match(st, key) ==
    LET hits == {i \in 1..Len(MatchOrder) :
                    /\ st[MatchOrder[i]].exists
                    /\ st[MatchOrder[i]].entries[key] # NoResponse}
    IN  IF hits = {} THEN NoResponse
        ELSE st[MatchOrder[CHOOSE i \in hits : \A j \in hits : i <= j]].entries[key]

\* `if (cacheResponse)`.
Found_Never(r) == FALSE

Found_Fresh(r) == r # NoResponse /\ ~Expired(r)

Found(r) == r # NoResponse

\* `.catch(error => { console.error(...) })`: the handler returns, so the
\* promise of the chain is fulfilled.
Caught(promise) == "fulfilled"

\* The promise handed to event.waitUntil by the install handler.
InstallPromise(addAllOk) ==
    Caught(IF addAllOk THEN "fulfilled" ELSE "rejected")

\* The state of a worker whose install event has been handled.
WorkerAfterInstall(promise) ==
    IF promise = "rejected" THEN "redundant" ELSE "installed"

\* `cacheName !== STATIC_CACHE && cacheName !== DYNAMIC_CACHE` is false.
Kept_StaticOnly(name) == name = STATIC_CACHE

Kept(name) == name = STATIC_CACHE \/ name = DYNAMIC_CACHE

\* `if (request.method !== 'GET') return`.
Handled_Every(request) == TRUE

Handled(request) == request.method = "GET"

\* The strategy of the fetch handler for a GET request.
Strategy(request) ==
    IF \/ request.url \in STATIC_FILES
       \/ Url(<<>>, request.url.pathname) \in STATIC_FILES
    THEN "cacheFirst"
    ELSE IF Includes(request.url.origin, <<"supabase", "co">>) THEN "networkFirst"
    ELSE IF StartsWithApi(request.url.pathname) THEN "networkFirst"
    ELSE "cacheFirst"

\* The store cacheFirst and networkFirst put into.
PutTarget_Static == STATIC_CACHE

PutTarget == DYNAMIC_CACHE

Handler(request, pc, resp) ==
    [url |-> request.url, destination |-> request.destination,
     strategy |-> Strategy(request), pc |-> pc, resp |-> resp]

\* The worker as the other sections leave it: a first visit, nothing cached.
SwInit ==
    /\ worker = "parsed"
    /\ skipWaitingFlag = FALSE
    /\ previous = FALSE
    /\ claimed = FALSE
    /\ stores = [n \in CacheNames |-> NoStore]
    /\ cacheNames = {}
    /\ deletedNames = {}
    /\ fetching = EmptyBag
    /\ putting = EmptyBag
    /\ lastOk = NoEntries
    /\ nResponse = 0
    /\ today = 0
    /\ answer = NoAnswer

\* A previous version is installed and controls the open pages. It has
\* left a store under its own name and, when `runtime`, one under the
\* Runtime name of this version as well.
PreviousVersion(runtime) ==
    /\ worker = "parsed"
    /\ ~previous
    /\ previous' = TRUE
    /\ stores' = [stores EXCEPT ![OLD_CACHE] = OldStore,
                                ![DYNAMIC_CACHE] =
                                    IF runtime THEN OldRuntime ELSE @]
    /\ answer' = NoAnswer
    /\ UNCHANGED <<worker, skipWaitingFlag, claimed, cacheNames, deletedNames,
                   fetching, putting, lastOk, nResponse, today>>

\* The pages the previous version controls are closed.
PreviousPagesClose ==
    /\ previous
    /\ worker \in {"installing", "installed"}
    /\ previous' = FALSE
    /\ answer' = NoAnswer
    /\ UNCHANGED <<worker, skipWaitingFlag, claimed, stores, cacheNames,
                   deletedNames, fetching, putting, lastOk, nResponse, today>>

\* install: caches.open(STATIC_CACHE).
InstallEvent ==
    /\ worker = "parsed"
    /\ worker' = "installing"
    /\ stores' = Opened(stores, STATIC_CACHE)
    /\ answer' = NoAnswer
    /\ UNCHANGED <<skipWaitingFlag, previous, claimed, cacheNames, deletedNames,
                   fetching, putting, lastOk, nResponse, today>>

\* cache.addAll(STATIC_FILES) settles: every file is stored, or, one fetch
\* having failed, none is; then the rest of the chain runs.
AddAllSettles(fetched) ==
    /\ worker = "installing"
    /\ LET addAllOk == \A f \in STATIC_FILES : fetched[f]
       IN  /\ stores' = IF addAllOk
                        THEN [stores EXCEPT ![STATIC_CACHE] = FullStatic]
                        ELSE stores
           /\ skipWaitingFlag' = (skipWaitingFlag \/ addAllOk)
           /\ worker' = WorkerAfterInstall(InstallPromise(addAllOk))
    /\ answer' = NoAnswer
    /\ UNCHANGED <<previous, claimed, cacheNames, deletedNames, fetching, putting,
                   lastOk, nResponse, today>>

\* The waiting worker is activated: no page is controlled by the previous
\* version, or skipWaiting was called.
ActivateEvent ==
    /\ worker = "installed"
    /\ skipWaitingFlag \/ ~previous
    /\ worker' = "activating"
    /\ previous' = FALSE
    /\ answer' = NoAnswer
    /\ UNCHANGED <<skipWaitingFlag, claimed, stores, cacheNames, deletedNames,
                   fetching, putting, lastOk, nResponse, today>>

\* caches.keys() answers.
ActivateKeys ==
    /\ worker = "activating"
    /\ cacheNames' = {n \in CacheNames : stores[n].exists}
    /\ worker' = "deleting"
    /\ answer' = NoAnswer
    /\ UNCHANGED <<skipWaitingFlag, previous, claimed, stores, deletedNames,
                   fetching, putting, lastOk, nResponse, today>>

\* Promise.all of the caches.delete calls settles.
ActivateDelete ==
    /\ worker = "deleting"
    /\ stores' = [n \in CacheNames |->
                     IF n \in cacheNames /\ ~Kept(n) THEN NoStore ELSE stores[n]]
    /\ deletedNames' = {n \in cacheNames : ~Kept(n)}
    /\ worker' = "claiming"
    /\ answer' = NoAnswer
    /\ UNCHANGED <<skipWaitingFlag, previous, claimed, cacheNames, fetching,
                   putting, lastOk, nResponse, today>>

\* self.clients.claim() resolves and the worker is activated.
ActivateClaim ==
    /\ worker = "claiming"
    /\ claimed' = TRUE
    /\ worker' = "activated"
    /\ answer' = NoAnswer
    /\ UNCHANGED <<skipWaitingFlag, previous, stores, cacheNames, deletedNames,
                   fetching, putting, lastOk, nResponse, today>>

MessageTypes == {"SKIP_WAITING", "GET_VERSION", "OTHER"}

\* message: SKIP_WAITING, GET_VERSION, or anything else; `port` tells
\* whether the message came with a port to answer on. Without one
\* `event.ports[0].postMessage` throws a TypeError.
MessageEvent(type, port) ==
    /\ worker \in {"installing", "installed", "activating", "deleting",
                   "claiming", "activated"}
    /\ skipWaitingFlag' = (skipWaitingFlag \/ type = "SKIP_WAITING")
    /\ answer' = IF type # "GET_VERSION" THEN NoAnswer
                 ELSE IF port THEN Answer(CACHE_NAME, NoUrl, NoResponse)
                 ELSE Answer("TypeError", NoUrl, NoResponse)
    /\ UNCHANGED <<worker, previous, claimed, stores, cacheNames, deletedNames,
                   fetching, putting, lastOk, nResponse, today>>

\* sync: syncOfflineData posts SYNC_OFFLINE_DATA to the pages.
SyncEvent ==
    /\ worker = "activated"
    /\ answer' = NoAnswer
    /\ UNCHANGED <<worker, skipWaitingFlag, previous, claimed, stores,
                   cacheNames, deletedNames, fetching, putting, lastOk, nResponse,
                   today>>

\* fetch: a request that is not a GET is left alone; for a GET the strategy
\* starts: cacheFirst awaits caches.match, networkFirst awaits fetch.
FetchEvent(request) ==
    /\ worker = "activated"
    /\ IF Handled(request)
       THEN /\ BagCardinality(fetching) < MaxFetching
            /\ fetching' = fetching (+) SetToBag({Handler(request,
                              IF Strategy(request) = "cacheFirst"
                              THEN "match" ELSE "fetch", NoResponse)})
            /\ answer' = NoAnswer
       ELSE /\ answer' = Answer("not handled", request.url, NoResponse)
            /\ UNCHANGED fetching
    /\ UNCHANGED <<worker, skipWaitingFlag, previous, claimed, stores,
                   cacheNames, deletedNames, putting, lastOk, nResponse, today>>

\* cacheFirst after `await caches.match(request)`.
CacheFirstMatch(h) ==
    /\ h.pc = "match"
    /\ LET r == Match(stores, h.url)
       IN  IF Found(r)
           THEN /\ fetching' = fetching (-) SetToBag({h})
                /\ answer' = Answer("cache", h.url, r)
           ELSE /\ fetching' = (fetching (-) SetToBag({h}))
                                  (+) SetToBag({[h EXCEPT !.pc = "fetch"]})
                /\ answer' = NoAnswer
    /\ UNCHANGED <<worker, skipWaitingFlag, previous, claimed, stores,
                   cacheNames, deletedNames, putting, lastOk, nResponse, today>>

\* `await fetch(request)` answers with a response: an ok one is on its way
\* to the cache, another one is returned.
NetworkAnswers(h, status, dated) ==
    /\ h.pc = "fetch"
    /\ nResponse < MaxResponses
    /\ nResponse' = nResponse + 1
    /\ LET r == Dated(Response(nResponse + 1, status),
                      IF dated THEN today ELSE NoDate)
       IN  IF Ok(r)
           THEN /\ fetching' = (fetching (-) SetToBag({h}))
                       (+) SetToBag({[h EXCEPT !.pc = "open", !.resp = r]})
                /\ lastOk' = [lastOk EXCEPT ![h.url] = r]
                /\ answer' = NoAnswer
           ELSE /\ fetching' = fetching (-) SetToBag({h})
                /\ lastOk' = lastOk
                /\ answer' = Answer("network", h.url, r)
    /\ UNCHANGED <<worker, skipWaitingFlag, previous, claimed, stores,
                   cacheNames, deletedNames, putting, today>>

\* `await fetch(request)` throws: cacheFirst answers a document request with
\* caches.match('/index.html') and rethrows otherwise; networkFirst awaits
\* caches.match(request).
NetworkFails(h) ==
    /\ h.pc = "fetch"
    /\ IF h.strategy = "networkFirst"
       THEN /\ fetching' = (fetching (-) SetToBag({h}))
                              (+) SetToBag({[h EXCEPT !.pc = "fallback"]})
            /\ answer' = NoAnswer
       ELSE IF h.destination = "document"
       THEN /\ fetching' = (fetching (-) SetToBag({h}))
                              (+) SetToBag({[h EXCEPT !.pc = "shell"]})
            /\ answer' = NoAnswer
       ELSE /\ fetching' = fetching (-) SetToBag({h})
            /\ answer' = Answer("raised", h.url, NoResponse)
    /\ UNCHANGED <<worker, skipWaitingFlag, previous, claimed, stores,
                   cacheNames, deletedNames, putting, lastOk, nResponse, today>>

\* After `await caches.open(DYNAMIC_CACHE)`: cache.put is called and not
\* awaited, and the network response is returned.
OpenAndPut(h) ==
    /\ h.pc = "open"
    /\ stores' = Opened(stores, PutTarget)
    /\ putting' = putting (+) SetToBag({[url |-> h.url, resp |-> h.resp]})
    /\ fetching' = fetching (-) SetToBag({h})
    /\ answer' = Answer("network", h.url, h.resp)
    /\ UNCHANGED <<worker, skipWaitingFlag, previous, claimed, cacheNames,
                   deletedNames, lastOk, nResponse, today>>

\* The promise of caches.match('/index.html') settles.
ShellAnswer(h) ==
    /\ h.pc = "shell"
    /\ fetching' = fetching (-) SetToBag({h})
    /\ LET r == Match(stores, IndexKey)
       IN  answer' = IF Found(r) THEN Answer("shell", h.url, r)
                     ELSE Answer("undefined", h.url, NoResponse)
    /\ UNCHANGED <<worker, skipWaitingFlag, previous, claimed, stores,
                   cacheNames, deletedNames, putting, lastOk, nResponse, today>>

\* networkFirst after `await caches.match(request)` in the catch block.
FallbackAnswer(h) ==
    /\ h.pc = "fallback"
    /\ fetching' = fetching (-) SetToBag({h})
    /\ LET r == Match(stores, h.url)
       IN  answer' = IF Found(r) THEN Answer("cache", h.url, r)
                     ELSE Answer("raised", h.url, NoResponse)
    /\ UNCHANGED <<worker, skipWaitingFlag, previous, claimed, stores,
                   cacheNames, deletedNames, putting, lastOk, nResponse, today>>

\* A cache.put settles: the entry is written, or, the response being a
\* partial one (206), the promise rejects and nothing is written.
PutSettles(p) ==
    /\ BagIn(p, putting)
    /\ putting' = putting (-) SetToBag({p})
    /\ IF p.resp.status = 206
       THEN UNCHANGED stores
       ELSE stores' = [stores EXCEPT ![PutTarget].entries[p.url] = p.resp]
    /\ answer' = NoAnswer
    /\ UNCHANGED <<worker, skipWaitingFlag, previous, claimed, cacheNames,
                   deletedNames, fetching, lastOk, nResponse, today>>

\* No event is being handled and nothing extends the worker's life: the
\* browser stops it, and the puts that have not settled are lost.
Terminate ==
    /\ worker = "activated"
    /\ fetching = EmptyBag
    /\ putting # EmptyBag
    /\ putting' = EmptyBag
    /\ answer' = NoAnswer
    /\ UNCHANGED <<worker, skipWaitingFlag, previous, claimed, stores,
                   cacheNames, deletedNames, fetching, lastOk, nResponse, today>>

\* Days pass.
DaysPass(d) ==
    /\ today + d <= MaxDay
    /\ today' = today + d
    /\ answer' = NoAnswer
    /\ UNCHANGED <<worker, skipWaitingFlag, previous, claimed, stores,
                   cacheNames, deletedNames, fetching, putting, lastOk, nResponse>>

\* periodicsync 'daily-sync': performDailySync deletes the entries of the
\* dynamic cache dated more than 7 days ago.
PeriodicSync ==
    /\ worker = "activated"
    /\ stores' = [Opened(stores, DYNAMIC_CACHE) EXCEPT
                     ![DYNAMIC_CACHE].entries =
                         [k \in Keys |-> IF Expired(@[k]) THEN NoResponse
                                         ELSE @[k]]]
    /\ answer' = NoAnswer
    /\ UNCHANGED <<worker, skipWaitingFlag, previous, claimed, cacheNames,
                   deletedNames, fetching, putting, lastOk, nResponse, today>>

\* What a step of the worker leaves in the page and in the database.
SwOnly == UNCHANGED <<vars, apiVars, sqlVars, portVars>>

\* The life of the worker up to its activation, and the messages of the
\* pages.
NextLife ==
    \/ \E runtime \in BOOLEAN : PreviousVersion(runtime) /\ SwOnly
    \/ PreviousPagesClose /\ SwOnly
    \/ InstallEvent /\ SwOnly
    \/ \E fetched \in [STATIC_FILES -> BOOLEAN] : AddAllSettles(fetched) /\ SwOnly
    \/ ActivateEvent /\ SwOnly
    \/ ActivateKeys /\ SwOnly
    \/ ActivateDelete /\ SwOnly
    \/ ActivateClaim /\ SwOnly
    \/ \E type \in MessageTypes, port \in BOOLEAN :
          MessageEvent(type, port) /\ SwOnly
    \/ \E request \in Requests : FetchEvent(request) /\ SwOnly
    \/ \E h \in BagToSet(fetching) : CacheFirstMatch(h) /\ SwOnly
    \/ \E h \in BagToSet(fetching) : NetworkFails(h) /\ SwOnly
    \/ \E h \in BagToSet(fetching) : ShellAnswer(h) /\ SwOnly
    \/ \E h \in BagToSet(fetching) : FallbackAnswer(h) /\ SwOnly

\* The worker of a first visit: its installation, its activation, and the
\* events it handles once activated.
NextFetch ==
    \/ InstallEvent /\ SwOnly
    \/ \E fetched \in [STATIC_FILES -> BOOLEAN] : AddAllSettles(fetched) /\ SwOnly
    \/ ActivateEvent /\ SwOnly
    \/ ActivateKeys /\ SwOnly
    \/ ActivateDelete /\ SwOnly
    \/ ActivateClaim /\ SwOnly
    \/ \E type \in MessageTypes : MessageEvent(type, TRUE) /\ SwOnly
    \/ SyncEvent /\ SwOnly
    \/ \E request \in Requests : FetchEvent(request) /\ SwOnly
    \/ \E h \in BagToSet(fetching) : CacheFirstMatch(h) /\ SwOnly
    \/ \E h \in BagToSet(fetching), status \in Statuses :
          NetworkAnswers(h, status, TRUE) /\ SwOnly
    \/ \E h \in BagToSet(fetching) : NetworkFails(h) /\ SwOnly
    \/ \E h \in BagToSet(fetching) : OpenAndPut(h) /\ SwOnly
    \/ \E h \in BagToSet(fetching) : ShellAnswer(h) /\ SwOnly
    \/ \E h \in BagToSet(fetching) : FallbackAnswer(h) /\ SwOnly
    \/ \E p \in BagToSet(putting) : PutSettles(p) /\ SwOnly
    \/ Terminate /\ SwOnly
    \/ DaysPass(RetentionDays + 1) /\ SwOnly
    \/ PeriodicSync /\ SwOnly

\* The worker of an install that stored the manifest, over the days: fetches,
\* their cache writes and the maintenance passes.
NextSync ==
    \/ InstallEvent /\ SwOnly
    \/ AddAllSettles([f \in STATIC_FILES |-> TRUE]) /\ SwOnly
    \/ ActivateEvent /\ SwOnly
    \/ ActivateKeys /\ SwOnly
    \/ ActivateDelete /\ SwOnly
    \/ ActivateClaim /\ SwOnly
    \/ \E request \in Requests : FetchEvent(request) /\ SwOnly
    \/ \E h \in BagToSet(fetching) : CacheFirstMatch(h) /\ SwOnly
    \/ \E h \in BagToSet(fetching), status \in Statuses, dated \in BOOLEAN :
          NetworkAnswers(h, status, dated) /\ SwOnly
    \/ \E h \in BagToSet(fetching) : NetworkFails(h) /\ SwOnly
    \/ \E h \in BagToSet(fetching) : OpenAndPut(h) /\ SwOnly
    \/ \E h \in BagToSet(fetching) : ShellAnswer(h) /\ SwOnly
    \/ \E h \in BagToSet(fetching) : FallbackAnswer(h) /\ SwOnly
    \/ \E p \in BagToSet(putting) : PutSettles(p) /\ SwOnly
    \/ \E d \in DayJumps : DaysPass(d) /\ SwOnly
    \/ PeriodicSync /\ SwOnly

\* The router: the worker of a first visit and the fetch events of the pages.
NextRoute ==
    \/ InstallEvent /\ SwOnly
    \/ \E fetched \in [STATIC_FILES -> BOOLEAN] : AddAllSettles(fetched) /\ SwOnly
    \/ ActivateEvent /\ SwOnly
    \/ ActivateKeys /\ SwOnly
    \/ ActivateDelete /\ SwOnly
    \/ ActivateClaim /\ SwOnly
    \/ \E request \in RouterRequests : FetchEvent(request) /\ SwOnly

\* ------------------------------------------------------------------ Init
InitAll == Init /\ ApiInit /\ SqlInit /\ PortInit /\ SwInit

\* What a step of the database leaves in the page and in the local data,
\* and a step of export or import in the page and in the database.
SqlOnly  == UNCHANGED <<vars, apiVars, portVars, swVars>>
PortOnly == UNCHANGED <<vars, apiVars, sqlVars, swVars>>

NextSql ==
    \/ \E q \in 0..MaxStock : UpsertIngredient(q) /\ SqlOnly
    \/ \E rq \in RecipeQuantities : SetRecipe(rq) /\ SqlOnly
    \/ \E sold \in 1..MaxSold : InsertSaleItem(sold) /\ SqlOnly
    \/ \E x \in BagToSet(saleItems) : TriggerUpdate(x) /\ SqlOnly
    \/ \E x \in BagToSet(saleItems) : Commit(x) /\ SqlOnly

SpecSql == InitAll /\ [][NextSql]_allVars

NextPort ==
    \/ \E t \in PortTables, x \in Records : LocalCreate(t, x) /\ PortOnly
    \/ \E t \in PortTables, x \in Records : LocalDelete(t, x) /\ PortOnly
    \/ ExportData /\ PortOnly
    \/ ImportData /\ PortOnly

SpecPort == InitAll /\ [][NextPort]_allVars

\* The page of the worker's specifications has its client and is online.
InitSw == InitAll /\ supabase = TRUE /\ navigatorOnLine = TRUE

SpecLife == InitSw /\ [][NextLife]_allVars

SpecFetch == InitSw /\ [][NextFetch]_allVars
SpecSync  == InitSw /\ [][NextSync]_allVars
SpecRoute == InitSw /\ [][NextRoute]_allVars

\* ----------------------------------------------------------------- Next
Next ==
    \/ \E k \in Kinds, t \in Tables, id \in TargetIds :
          /\ UserCallOnline(k, t, IF k = "create" THEN NoId ELSE id)
          /\ ApiQuiet
    \/ \E k \in Kinds, t \in Tables, id \in TargetIds :
          /\ UserCallOffline(k, t, IF k = "create" THEN NoId ELSE id)
          /\ ApiQuiet
    \/ \E c \in BagToSet(inflight), o \in Outcomes :
          UserResponse(c, o) /\ ApiQuiet
    \/ GoOnline /\ ApiQuiet
    \/ GoOffline /\ ApiQuiet
    \/ Reload /\ ApiQuiet
    \/ \E r \in Passes : PassSend(r) /\ ApiQuiet
    \/ \E r \in Passes : PassReplayOffline(r) /\ ApiQuiet
    \/ \E r \in Passes, o \in Outcomes : PassResponse(r, o) /\ ApiQuiet
    \/ \E r \in Passes : PassFinish(r) /\ ApiQuiet

Spec == InitAll /\ [][Next]_allVars

\* Steps of the queue model beside the reads and helpers.
CallOnlineStep ==
    /\ \E k \in Kinds, t \in Tables, id \in TargetIds :
          UserCallOnline(k, t, IF k = "create" THEN NoId ELSE id)
    /\ ApiQuiet

CallOfflineStep ==
    /\ \E k \in Kinds, t \in Tables, id \in TargetIds :
          UserCallOffline(k, t, IF k = "create" THEN NoId ELSE id)
    /\ ApiQuiet

ResponseStep ==
    /\ \E c \in BagToSet(inflight), o \in Outcomes : UserResponse(c, o)
    /\ ApiQuiet

\* A pass that is not awaiting takes its next step.
PassStep ==
    /\ \E r \in Passes : PassSend(r) \/ PassReplayOffline(r) \/ PassFinish(r)
    /\ ApiQuiet

PassResponseStep ==
    /\ \E r \in Passes, o \in Outcomes : PassResponse(r, o)
    /\ ApiQuiet

\* Reads beside writes queued while unreachable and their replay.
NextRead ==
    \/ CallOfflineStep
    \/ GoOnline /\ ApiQuiet
    \/ GoOffline /\ ApiQuiet
    \/ ReloadApi
    \/ PassStep
    \/ PassResponseStep
    \/ \E l \in Limits : ReadCall(l)
    \/ \E c \in BagToSet(reads), o \in Outcomes : ReadResponse(c, o)
    \/ \E d \in RowLists : RemoteChange(d)

SpecRead == InitAll /\ [][NextRead]_allVars

\* Helpers beside writes queued while unreachable and their replay.
NextHelper ==
    \/ CallOfflineStep
    \/ GoOnline /\ ApiQuiet
    \/ GoOffline /\ ApiQuiet
    \/ ReloadApi
    \/ PassStep
    \/ PassResponseStep
    \/ \E h \in Helpers : HelperCall(h)
    \/ \E c \in BagToSet(helpers), o \in Outcomes : HelperResponse(c, o)

SpecHelper == InitAll /\ [][NextHelper]_allVars

\* Calls that go to the backend: writes, reads, and the replay of the writes
\* that failed.
NextCalls ==
    \/ CallOnlineStep
    \/ ResponseStep
    \/ GoOnline /\ ApiQuiet
    \/ GoOffline /\ ApiQuiet
    \/ PassStep
    \/ PassResponseStep
    \/ \E l \in Limits : ReadCall(l)
    \/ \E c \in BagToSet(reads), o \in Outcomes : ReadResponse(c, o)

\* The event loop runs a continuation that is ready: a pass that is not
\* awaiting takes its next step.  Nothing obliges the backend to answer.
FairCalls ==
    /\ InitAll
    /\ [][NextCalls]_allVars
    /\ WF_allVars(PassStep)

\* The queue model with an event loop that runs every continuation that is
\* ready and a backend that answers every call it is sent.
FairReplay ==
    /\ InitAll
    /\ [][Next]_allVars
    /\ WF_allVars(PassStep)
    /\ WF_allVars(PassResponseStep)
    /\ WF_allVars(ResponseStep)

\* Reads beside the writes of the UI, with a local copy that has been saved
\* and the connection as it was when the page loaded.
NextLocal ==
    \/ CallOnlineStep
    \/ CallOfflineStep
    \/ ResponseStep
    \/ \E l \in Limits : ReadCall(l)
    \/ \E c \in BagToSet(reads), o \in Outcomes : ReadResponse(c, o)
    \/ \E d \in RowLists : SaveOfflineData(d)

SpecLocal == InitAll /\ [][NextLocal]_allVars

\* One restoration of connectivity: the calls of the UI, a single 'online'
\* event and the pass it starts.  No 'offline' event follows, so the manager
\* stays reachable while the pass runs.
NextOnce ==
    \/ CallOnlineStep
    \/ CallOfflineStep
    \/ ResponseStep
    \/ GoOnline /\ ApiQuiet
    \/ \E r \in Passes : PassSend(r) /\ ApiQuiet
    \/ PassResponseStep
    \/ \E r \in Passes : PassFinish(r) /\ ApiQuiet

SpecOnce == InitAll /\ [][NextOnce]_allVars

\* --------------------------------------------------------------- backend
\* The backend as a table keyed by id, which answers every request.
Ids(rows) == {rows[k].id : k \in 1..Len(rows)}

\* The answers the backend can give to a write: an insert is accepted unless
\* the key exists (PRIMARY KEY); an update or delete of an id that matches no
\* row is rejected or answered with no row and no error.
Answers(rows, op) ==
    IF op.operation = "create"
    THEN IF op.id \in Ids(rows) THEN {"reject"}
         ELSE IF op.id = NoId /\ ServerIds \subseteq Ids(rows) THEN {}
         ELSE {"ok"}
    ELSE IF op.id \in Ids(rows) THEN {"ok"} ELSE {"reject", "empty"}

\* The table after the backend answered the write.
TableAfter(rows, op, outcome) ==
    IF outcome # "ok" THEN rows
    ELSE IF op.operation = "create"
         THEN Append(rows, Row(IF op.id = NoId
                               THEN CHOOSE s \in ServerIds : s \notin Ids(rows)
                               ELSE op.id, FALSE))
    ELSE IF op.operation = "delete"
         THEN SelectSeq(rows, LAMBDA x : x.id # op.id)
    ELSE rows

\* What a write step leaves in the variables of reads and helpers.
DbQuiet ==
    /\ readResult' = NoRead
    /\ UNCHANGED <<reads, helpers, localStore, lastRead>>
    /\ UNCHANGED <<sqlVars, portVars, swVars>>

\* update / delete called by the UI while reachable.
DbCallOnline ==
    /\ \E k \in Kinds \ {"create"}, t \in Tables, id \in TargetIds :
          UserCallOnline(k, t, id)
    /\ ApiQuiet

\* The backend answers a UI call.
DbUserResponse(c) ==
    /\ \E o \in Answers(remoteRows, c) :
          /\ UserResponse(c, o)
          /\ remoteRows' = TableAfter(remoteRows, c, o)
    /\ DbQuiet

\* The backend answers a replayed call.
DbPassResponse(r) ==
    /\ r.pc = "await"
    /\ \E o \in Answers(remoteRows, Cur(r)) :
          /\ PassResponse(r, o)
          /\ remoteRows' = TableAfter(remoteRows, Cur(r), o)
    /\ DbQuiet

NextDb ==
    \/ CallOfflineStep
    \/ DbCallOnline
    \/ \E c \in BagToSet(inflight) : DbUserResponse(c)
    \/ GoOnline /\ ApiQuiet
    \/ GoOffline /\ ApiQuiet
    \/ PassStep
    \/ \E r \in Passes : DbPassResponse(r)

SpecDb == InitAll /\ [][NextDb]_allVars

TypeOK ==
    /\ supabase \in BOOLEAN /\ navigatorOnLine \in BOOLEAN /\ isOnline \in BOOLEAN
    /\ nRekey \in 0..MaxRekeys /\ nEnq - nRekey \in 0..MaxEnq
    /\ now \in 1..MaxClock
    /\ Len(offlineQueue) <= MaxEnq + MaxRekeys
    /\ BagCardinality(pass) <= MaxPending
    /\ BagCardinality(inflight) <= MaxPending
    /\ \A r \in Passes : r.pc \in {"loop", "await"} /\ r.i <= Len(Arr(r))
    /\ ended.pc \in {"none", "ended"}

\* ================================================================ claims
\* A facade call completed in the step.
CallCompletes == result'.how # "none"

\* q2 is q1 with exactly one entry pushed at its end.
OnePushed(q1, q2) ==
    /\ Len(q2) = Len(q1) + 1
    /\ SubSeq(q2, 1, Len(q1)) = q1

\* A pass ended in the last step, every replay of which reached the backend
\* and was accepted.
CleanPass ==
    /\ ended.pc = "ended"
    /\ ended.nFail = 0
    /\ \A k \in 1..Len(ended.log) : ended.log[k].sent

\* C1: every create, update or delete call made while the manager is
\* unreachable returns a record tagged offline and pushes exactly one entry,
\* for that call, at the end of the offline queue.
C1_UnreachableCallQueuesOne ==
    [][(CallCompletes /\ ~result'.madeOnline) =>
          /\ result'.how = "offline"
          /\ OnePushed(offlineQueue, offlineQueue')
          /\ offlineQueue'[Len(offlineQueue')].tag = result'.tag]_vars

\* C1 witness: the second of two UI calls made while unreachable returned,
\* one of them a delete.
C1_Witness ==
    /\ result.how = "offline" /\ ~result.madeOnline /\ ~result.byPass
    /\ Len(offlineQueue) = 2
    /\ \E k \in 1..2 : offlineQueue[k].operation = "delete"

\* C2: when a pass ends in which every replay reached the backend and was
\* accepted, the offline queue is empty.
C2_CleanPassEmptiesQueue == CleanPass => offlineQueue = <<>>

\* C2 witness: a pass ended after two accepted replays of different kinds.
C2_Witness ==
    /\ CleanPass
    /\ Len(ended.log) = 2
    /\ ended.arr[1].operation # ended.arr[2].operation

\* C3: a pass replays the entries of its array one by one from the front,
\* none skipped or merged, and the entries it has replayed are in the order
\* in which they were pushed.
C3_ReplayInSubmissionOrder ==
    \A r \in Passes :
        /\ Len(r.log) = r.i
        /\ r.i <= Len(Arr(r))
        /\ \A k \in 1..r.i : r.log[k].n = Arr(r)[k].n
        /\ \A j, k \in 1..r.i : j < k => r.log[j].n < r.log[k].n

\* C3 witness: a pass has sent two operations on the same record to the
\* backend, the second of them pushed by a catch block.
C3_Witness ==
    \E r \in Passes :
        /\ r.pc = "await"
        /\ r.i = 2
        /\ r.log[1].sent /\ r.log[2].sent
        /\ Arr(r)[1].tag # Arr(r)[2].tag
        /\ Arr(r)[1].id = Arr(r)[2].id
        /\ Arr(r)[2].id # NoId

\* C4 (as claimed): when a pass ends, no operation the backend accepted during
\* it is in the offline queue, and no pass sends to the backend an operation
\* that the backend has already accepted.
C4_NeverOutlivesReplay ==
    /\ [](ended.pc = "ended" => Tags(offlineQueue) \cap ended.acc = {})
    /\ [][\A r \in Passes :
            PassSend(r) => Arr(r)[r.i + 1].tag \notin accepted]_vars

\* C5 (as claimed): after a pass with failed replays the queue holds exactly
\* the operations whose replay failed, each once, in their original order,
\* and none that was accepted.
C5_QueueIsExactlyTheFailed ==
    (ended.pc = "ended" /\ ended.nFail > 0) =>
        /\ Tags(offlineQueue) = Tags(ended.failed)
        /\ Tags(offlineQueue) \cap ended.acc = {}
        /\ \A j, k \in 1..Len(offlineQueue) :
              j < k => /\ offlineQueue[j].tag # offlineQueue[k].tag
                       /\ offlineQueue[j].n < offlineQueue[k].n

\* C6 (as claimed): a page reload leaves the offline queue as it was.
C6_QueueSurvivesReload ==
    [][reloaded' => offlineQueue' = offlineQueue]_vars

\* C7 (as claimed): on one page, an operation leaves the offline queue only
\* when the backend has accepted a replay of it.
C7_NeverDroppedSilently ==
    [][~reloaded' =>
          \A t \in Tags(offlineQueue) \ Tags(offlineQueue') : t \in accepted']_vars

\* C8 (as claimed): a call whose remote call throws does not raise; it
\* returns a record tagged offline and pushes exactly one entry.
C8_ThrowIsAbsorbed ==
    [][(CallCompletes /\ result'.remote = "throw") =>
          /\ result'.how = "offline"
          /\ OnePushed(offlineQueue, offlineQueue')]_vars

\* C9 (as claimed): a call the backend rejects raises the error and leaves
\* the offline queue unchanged.
C9_RejectedNotQueued ==
    [][(CallCompletes /\ result'.remote = "reject") =>
          /\ result'.how = "raised"
          /\ offlineQueue' = offlineQueue]_vars

\* C10 (as claimed): a call ends as succeeded (server record, queue
\* unchanged), queued (offline record, one entry pushed) or failed (error
\* raised, queue unchanged).
C10_ThreeOutcomes ==
    [][CallCompletes =>
          \/ result'.how = "server" /\ offlineQueue' = offlineQueue
          \/ result'.how = "offline" /\ OnePushed(offlineQueue, offlineQueue')
          \/ result'.how = "raised" /\ offlineQueue' = offlineQueue]_vars

\* The entries the page holds: in the queue, or in an array or the
\* failedOperations of an activation.
HeldEntries ==
    {offlineQueue[k] : k \in 1..Len(offlineQueue)}
    \cup UNION {{r.arr[k] : k \in 1..Len(r.arr)}
                \cup {r.failed[k] : k \in 1..Len(r.failed)} : r \in Passes}

\* An entry that carries a record created while unreachable.
ClientKeyed(e) == e.operation = "create" /\ e.id # NoId

\* C15 (as claimed): two records created while unreachable by different calls
\* have different ids, and no client-assigned id is a server-assigned id.
C15_ClientIdsUnique ==
    \A e1, e2 \in HeldEntries :
        /\ (ClientKeyed(e1) /\ ClientKeyed(e2) /\ e1.tag # e2.tag)
              => e1.id # e2.id
        /\ ClientKeyed(e1) => e1.id \notin ServerIds

\* C16 (as claimed): every entry queued for a create made while unreachable
\* carries the id that the create returned to its caller, so that is the id
\* every replay sends.
C16_ReplayKeepsId ==
    \A e1, e2 \in HeldEntries :
        (ClientKeyed(e1) /\ e2.operation = "create" /\ e1.tag = e2.tag)
            => e1.id = e2.id

\* C12 (as claimed): a read that is issued while unreachable, or whose remote
\* query fails, returns the rows that the last successful remote read of the
\* table obtained, and leaves the offline queue as it was.
C12_ReadFallsBackToLastRead ==
    [][readResult'.how = "local" =>
          /\ lastRead'.known => readResult'.rows = lastRead'.rows
          /\ offlineQueue' = offlineQueue]_allVars

\* C13 (as claimed): a read or a write that awaits the backend completes in
\* the end, whether or not the backend answers.
C13_EveryCallCompletes ==
    \A n \in 1..MaxPending :
        /\ (BagCardinality(reads) = n) ~> (BagCardinality(reads) < n)
        /\ (BagCardinality(inflight) = n) ~> (BagCardinality(inflight) < n)

\* C14 (as claimed): a write made through any entry point while the manager
\* is unreachable does not raise and pushes one entry onto the offline queue.
C14_WritesEndInQueue ==
    [][(CallCompletes /\ ~result'.madeOnline /\ ~result'.byPass) =>
          /\ result'.how # "raised"
          /\ OnePushed(offlineQueue, offlineQueue')]_allVars

\* C11 (as claimed): an update or delete that reaches the backend and targets
\* an id of which the table holds no row raises an error to its caller.
C11_MissingIdIsAnError ==
    [][\A c \in BagToSet(inflight) :
          (DbUserResponse(c) /\ c.id \notin Ids(remoteRows))
              => result'.how = "raised"]_allVars

\* A pass over [create S1, update S1] ended in the last step: both replays
\* reached the backend and the backend accepted the create under the id S1.
ScenarioPass ==
    /\ ended.pc = "ended"
    /\ Len(ended.arr) = 2
    /\ Len(ended.log) = 2
    /\ ClientKeyed(ended.arr[1])
    /\ ended.arr[2].operation = "update"
    /\ ended.arr[2].id = ended.arr[1].id
    /\ ended.arr[2].tag # ended.arr[1].tag
    /\ \A k \in 1..Len(ended.log) : ended.log[k].sent
    /\ ended.arr[1].tag \in ended.acc

C18_QuantityNeverNegative == quantity >= 0

\* C19 (as claimed): the ingredient stocked with 5, its recipe asking for 2,
\* after three sales of quantity 1 that were open at once and have all
\* committed, has quantity 0.
C19_ThreeSalesLeaveZero ==
    (/\ stocked = 5
     /\ deducted = [k \in 1..3 |-> [quantity |-> 1, recipe |-> 2000]]
     /\ peak = 3
     /\ saleItems = EmptyBag) => quantity = 0

\* C20: an import leaves in every table exactly the records the tables held
\* when the document was exported, whatever they hold before the import:
\* nothing, or records of their own.
C20_ImportRestoresExport ==
    [][ImportData => localData' = snapshot]_allVars

\* C20 witness: the last step imported into an empty store a document that
\* holds records.
C20_Witness ==
    /\ portResult.op = "import"
    /\ portResult.priorEmpty
    /\ localData = snapshot
    /\ \A t \in PortTables : localData[t] # {}

\* C21 (as claimed): when the fetch of a file of the manifest fails, the
\* install fails, the worker does not become installed, and the Static cache
\* holds no file of the manifest.
C21_FailedInstallFails ==
    [][\A fetched \in [STATIC_FILES -> BOOLEAN] :
          (AddAllSettles(fetched) /\ \E f \in STATIC_FILES : ~fetched[f]) =>
              /\ worker' = "redundant"
              /\ stores'[STATIC_CACHE].entries = NoEntries]_allVars

\* C22 (as claimed): a store under a name that is neither the Static nor the
\* Runtime name has been deleted only if the Static cache holds every file of
\* the manifest.
C22_DeletedOnlyAfterInstall ==
    (\E n \in deletedNames : n # STATIC_CACHE /\ n # DYNAMIC_CACHE) =>
        /\ stores[STATIC_CACHE].exists
        /\ \A k \in ManifestKeys : stores[STATIC_CACHE].entries[k] # NoResponse

\* C23: while the worker activates, the stores under the Static and the
\* Runtime name are left as they are, and when the activation completes no
\* store under another name exists and the pages are claimed.
C23_ActivationCleansUp ==
    [][/\ worker \in {"activating", "deleting", "claiming"} =>
             \A n \in {STATIC_CACHE, DYNAMIC_CACHE} : stores'[n] = stores[n]
       /\ (worker = "claiming" /\ worker' = "activated") =>
             /\ \A n \in CacheNames \ {STATIC_CACHE, DYNAMIC_CACHE} :
                   ~stores'[n].exists
             /\ claimed']_allVars

\* C23 witness: the worker is activated, the store of the previous version
\* has been deleted, the Static cache and a Runtime cache that was there
\* before hold their entries, and the pages are claimed.
C23_Witness ==
    /\ worker = "activated"
    /\ deletedNames = {OLD_CACHE}
    /\ ~stores[OLD_CACHE].exists
    /\ stores[STATIC_CACHE] = FullStatic
    /\ stores[DYNAMIC_CACHE] = OldRuntime
    /\ claimed

\* C24: once install has populated the Static cache, no step of the worker
\* (fetch handling, cache write, maintenance, message, sync, activation of
\* this version) adds, replaces or removes an entry of it.
C24_StaticCacheImmutable ==
    [][stores[STATIC_CACHE] = FullStatic =>
          stores'[STATIC_CACHE] = FullStatic]_allVars

\* C24 witness: the Static cache is populated, the worker is activated, a
\* fetch has written an entry into the Runtime cache and the last step
\* answered a GET_VERSION message.
C24_Witness ==
    /\ worker = "activated"
    /\ stores[STATIC_CACHE] = FullStatic
    /\ \E k \in Keys : stores[DYNAMIC_CACHE].entries[k].n > 0
    /\ answer.how = CACHE_NAME

\* C25: a fetch event for a request that is not a GET is not answered by the
\* worker, starts no cache lookup and no cache write, and leaves every store
\* as it is.
C25_NonGetPassedThrough ==
    [][\A request \in Requests :
          (FetchEvent(request) /\ request.method # "GET") =>
              /\ answer'.how = "not handled"
              /\ fetching' = fetching
              /\ putting' = putting
              /\ stores' = stores]_allVars

\* C25 witness: the last step left a request alone although the Runtime
\* cache holds an entry under its URL.
C25_Witness ==
    /\ answer.how = "not handled"
    /\ stores[DYNAMIC_CACHE].entries[answer.url] # NoResponse

\* C26: a cache-first fetch of a file of the manifest that the cache holds
\* is answered with the cached response, and the handler ends without a
\* request to the network.
C26_WarmHitNoNetwork ==
    [][\A h \in BagToSet(fetching) :
          (/\ CacheFirstMatch(h)
           /\ h.url \in ManifestKeys
           /\ Match(stores, h.url) # NoResponse) =>
              /\ answer' = Answer("cache", h.url, Match(stores, h.url))
              /\ fetching' = fetching (-) SetToBag({h})
              /\ nResponse' = nResponse]_allVars

\* C26 witness: the last step answered a request for a file of the manifest
\* with the response install stored.
C26_Witness ==
    /\ answer.how = "cache"
    /\ answer.url \in ManifestKeys
    /\ answer.resp = Response(0, 200)

\* C27 (as claimed): a cache-first call that missed the cache returns the
\* response of the network; an ok response is in the Runtime cache under the
\* key of the request when it is returned, and a response that is not ok is
\* returned and not stored.
C27_MissStoresBeforeReturn ==
    [][\A h \in BagToSet(fetching) :
          h.strategy = "cacheFirst" =>
              /\ OpenAndPut(h) =>
                    /\ answer' = Answer("network", h.url, h.resp)
                    /\ stores'[DYNAMIC_CACHE].entries[h.url] = h.resp
              /\ \A status \in Statuses :
                    (/\ NetworkAnswers(h, status, TRUE)
                     /\ status \notin 200..299) =>
                        /\ answer' = Answer("network", h.url,
                                            Dated(Response(nResponse', status),
                                                  today))
                        /\ stores' = stores]_allVars

\* C28 (as claimed): a cache-first call that missed the cache and whose
\* request to the network failed answers a request for a document with the
\* cached /index.html, and raises the failure for any other request.
C28_ShellForDocuments ==
    [][\A h \in BagToSet(fetching) :
          /\ ShellAnswer(h) =>
                /\ answer'.how = "shell"
                /\ answer'.resp # NoResponse
                /\ answer'.resp = Match(stores, IndexKey)
          /\ (/\ NetworkFails(h)
              /\ h.strategy = "cacheFirst"
              /\ h.destination # "document") =>
                answer' = Answer("raised", h.url, NoResponse)]_allVars

\* C29 (as claimed): a network-first call whose request to the network failed
\* returns the most recent ok response the network gave for the same key, if
\* there was one (and maintenance has not aged it out), and raises the
\* failure otherwise.
C29_FallbackIsMostRecent ==
    [][\A h \in BagToSet(fetching) :
          (FallbackAnswer(h) /\ ~Expired(lastOk[h.url])) =>
              answer' = IF lastOk[h.url] # NoResponse
                        THEN Answer("cache", h.url, lastOk[h.url])
                        ELSE Answer("raised", h.url, NoResponse)]_allVars

\* The keys the fetch listener handles network-first.
NetworkFirstKeys ==
    {r.url : r \in {q \in Requests : q.method = "GET"
                                     /\ Strategy(q) = "networkFirst"}}

\* No call for the key is between its network response and its return, and
\* no cache write for the key is pending.
Settled(k) ==
    /\ \A h \in BagToSet(fetching) : h.url = k => h.pc # "open"
    /\ \A p \in BagToSet(putting) : p.url # k

\* C30 (as claimed): a network-first call whose request to the network
\* completed returns the response of the network; once its cache write is no
\* longer pending, the Runtime cache entry of the key is the last ok response
\* (unless maintenance has aged it out).
C30_NetworkFirstStores ==
    [][/\ \A h \in BagToSet(fetching) :
             (OpenAndPut(h) /\ h.strategy = "networkFirst") =>
                 answer' = Answer("network", h.url, h.resp)
       /\ \A k \in NetworkFirstKeys :
             (/\ Settled(k)'
              /\ lastOk'[k] # NoResponse
              /\ ~Expired(lastOk[k])') =>
                 stores'[DYNAMIC_CACHE].entries[k] = lastOk'[k]]_allVars

C32_PurgedOnlyByMaintenance ==
    [][/\ (worker = "activated" /\ ~PeriodicSync) =>
             \A n \in CacheNames, k \in Keys :
                 stores[n].entries[k] # NoResponse =>
                     stores'[n].entries[k] # NoResponse
       /\ \A h \in BagToSet(fetching) :
             ((CacheFirstMatch(h) \/ FallbackAnswer(h))
                 /\ Match(stores, h.url) # NoResponse) =>
                 answer' = Answer("cache", h.url, Match(stores, h.url))]_allVars

\* C32 witness: the last step answered a request with a cached response
\* dated more than 7 days ago.
C32_Witness ==
    /\ answer.how = "cache"
    /\ answer.resp.date # NoDate
    /\ today - answer.resp.date > 7

\* C34 (as claimed): a GET_VERSION message is answered with the version
\* string, a SKIP_WAITING message makes the worker skip waiting, and any other
\* message changes no store and nothing of the worker's life.
C34_TwoControlMessages ==
    [][\A type \in MessageTypes, port \in BOOLEAN :
          MessageEvent(type, port) =>
              /\ type = "GET_VERSION" => answer'.how = "sandwich-pos-v2.0.0"
              /\ type = "SKIP_WAITING" => skipWaitingFlag'
              /\ type = "OTHER" =>
                    /\ answer' = NoAnswer
                    /\ UNCHANGED <<worker, skipWaitingFlag, previous, claimed,
                                   stores>>]_allVars

\* C35 (as claimed): a GET request gets one strategy: cache-first when its
\* URL is in the manifest, by its full URL or by its path, whatever its
\* origin; otherwise network-first when its origin is the origin of the
\* backend or its path is under /api/; cache-first otherwise.
C35_RouterStrategy ==
    [][\A request \in RouterRequests :
          (FetchEvent(request) /\ request.method = "GET") =>
              /\ BagCardinality(fetching') = BagCardinality(fetching) + 1
              /\ \A h \in BagToSet(fetching' (-) fetching) :
                    /\ h.url = request.url
                    /\ h.strategy =
                          IF \/ request.url \in STATIC_FILES
                             \/ Url(<<>>, request.url.pathname) \in STATIC_FILES
                          THEN "cacheFirst"
                          ELSE IF \/ request.url.origin = Backend
                                  \/ StartsWithApi(request.url.pathname)
                          THEN "networkFirst"
                          ELSE "cacheFirst"]_allVars

C36_OneAttemptPerQueuedEntry ==
    \A r \in Passes \cup {ended} :
        \A k \in 1..r.i : Arr(r)[k].tag = Arr(r)[k].n

\* The entries activation r has sent to the backend.
SentBy(r) == {r.log[k].n : k \in {j \in 1..Len(r.log) : r.log[j].sent}}

\* C37: when an 'online' event starts a pass while another pass is alive, no
\* queued operation is sent to the backend by both passes: two activations
\* alive at once, or one alive when the other ends, have sent no entry in
\* common.
C37_NoOperationReplayedByBoth ==
    /\ \A r \in Passes : CopiesIn(r, pass) > 1 => SentBy(r) = {}
    /\ \A r1, r2 \in Passes : r1 # r2 => SentBy(r1) \cap SentBy(r2) = {}
    /\ \A r \in Passes : SentBy(r) \cap SentBy(ended) = {}

\* The manager is reachable and the step brought no error answer.
ReachableAndAccepting == Reachable /\ result.remote \notin {"reject", "throw"}

\* C38: if from some point on the backend is reachable and accepts every
\* operation, every queued operation is eventually sent and removed: the
\* queue becomes empty and stays empty.
C38_EveryPendingOperationReplayed ==
    <>[]ReachableAndAccepting => <>[](offlineQueue = <<>>)

\* The rows of a stored list that are not flagged _deleted, cut to a limit.
LocalAnswer(store, limit) ==
    LET kept == SelectSeq(store, LAMBDA x : ~x.deleted)
    IN IF limit = 0 \/ limit >= Len(kept) THEN kept ELSE SubSeq(kept, 1, limit)

\* C39: a read served from the local fallback returns the rows of the
\* persisted copy that are not flagged _deleted, cut to filters.limit,
\* whatever the offline queue holds; and create, update and delete, sent,
\* queued or answered, leave the persisted copy as it was.
C39_LocalReadFromCopyOnly ==
    [][/\ \A l \in Limits :
             ReadCall(l) /\ ~Reachable =>
                 readResult' = [how |-> "local", rows |-> LocalAnswer(localStore, l)]
       /\ \A c \in BagToSet(reads), o \in Outcomes \ {"ok"} :
             ReadResponse(c, o) =>
                 readResult' = [how |-> "local",
                                rows |-> LocalAnswer(localStore, c.limit)]
       /\ (CallOnlineStep \/ CallOfflineStep \/ ResponseStep) =>
             localStore' = localStore]_allVars

\* A read made while unreachable, with a create queued and a saved copy that
\* holds a row flagged _deleted, has returned the one row that is not.
C39_Witness ==
    /\ ~Reachable
    /\ readResult.how = "local"
    /\ readResult.rows = <<Row(-1, FALSE)>>
    /\ localStore = <<Row(-1, FALSE), Row(1, TRUE)>>
    /\ \E k \in 1..Len(offlineQueue) : offlineQueue[k].operation = "create"
====
